---------------------------- MODULE Spec2Model ----------------------------
(***************************************************************************)
(* Smoothificator: a G-code post-processor that re-prints every outer-wall *)
(* segment as several thinner passes.  Two scripts are modelled:           *)
(*   policy = "fixed"    : src/Smoothificator.py                           *)
(*   policy = "adaptive" : src/Smoothificator_Adaptive.py                  *)
(*                                                                         *)
(* G-code lines are TLA+ strings, without their trailing newline (the end  *)
(* of a string stands for the "\n" that ends every line Python reads).     *)
(* Numbers are integers in ticks of 1e-5 (Tick == 100000 ticks per unit);  *)
(* quotients the code forms in floating point are kept as exact fractions  *)
(* num/den and rounded only where the code formats or rounds them.         *)
(***************************************************************************)
EXTENDS Integers, Sequences, FiniteSets, TLC

(***************************************************************************)
(* Text helpers: Python's `in`, str.startswith, str.lower, character       *)
(* classes of the regular expressions.                                     *)
(***************************************************************************)
Ch(s, i) == IF i >= 1 /\ i <= Len(s) THEN SubSeq(s, i, i) ELSE ""

Digit == {"0", "1", "2", "3", "4", "5", "6", "7", "8", "9"}

\* [-\d.] and [-0-9.]
NumChar == Digit \cup {"-", "."}

\* [\d.]
DotDigit == Digit \cup {"."}

UpperSeq == "ABCDEFGHIJKLMNOPQRSTUVWXYZ"

LowerSeq == "abcdefghijklmnopqrstuvwxyz"

Upper == {Ch(UpperSeq, k) : k \in 1..26}

\* \w
WordChar == Digit \cup Upper \cup {Ch(LowerSeq, k) : k \in 1..26} \cup {"_"}

\* \s, with the end of the string standing for the line's "\n"
IsSpaceAt(s, i) == i > Len(s) \/ Ch(s, i) \in {" ", "\t"}

IsWordAt(s, i) == Ch(s, i) \in WordChar

\* \b between positions i and i+1
BoundaryAfter(s, i) == IsWordAt(s, i) # IsWordAt(s, i + 1)

StartsWithAt(s, i, sub) == i >= 1 /\ i + Len(sub) - 1 <= Len(s) /\ SubSeq(s, i, i + Len(sub) - 1) = sub

StartsWith(s, sub) == StartsWithAt(s, 1, sub)

\* positions at which sub occurs in s
Occurrences(s, sub) == {i \in 1..(Len(s) - Len(sub) + 1) : StartsWithAt(s, i, sub)}

Contains(s, sub) == Occurrences(s, sub) # {}

Min(S) == CHOOSE x \in S : \A y \in S : x <= y

Max(S) == CHOOSE x \in S : \A y \in S : x >= y

LowerCh(c) == IF c \in Upper THEN Ch(LowerSeq, CHOOSE k \in 1..26 : Ch(UpperSeq, k) = c) ELSE c

RECURSIVE LowerStr(_)
LowerStr(s) == IF s = "" THEN "" ELSE LowerCh(Head(s)) \o LowerStr(Tail(s))

\* length of the longest run of characters of `cls` that starts at position i
RECURSIVE RunLen(_, _, _)
RunLen(s, i, cls) == IF i <= Len(s) /\ Ch(s, i) \in cls THEN 1 + RunLen(s, i + 1, cls) ELSE 0

Run(s, i, cls) == SubSeq(s, i, i + RunLen(s, i, cls) - 1)

(***************************************************************************)
(* Numbers.                                                                *)
(***************************************************************************)
Tick == 100000

TickDigits == 5

\* Python's None, and a value that is not None: <<v>>
None == <<>>

Some(v) == <<v>>

Abs(x) == IF x < 0 THEN -x ELSE x

RECURSIVE Pow10(_)
Pow10(k) == IF k = 0 THEN 1 ELSE 10 * Pow10(k - 1)

DigitVal(c) == CHOOSE d \in 0..9 : Ch("0123456789", d + 1) = c

RECURSIVE DigitsVal(_)
DigitsVal(s) == IF s = "" THEN 0 ELSE 10 * DigitsVal(SubSeq(s, 1, Len(s) - 1)) + DigitVal(Ch(s, Len(s)))

AllIn(s, cls) == \A k \in 1..Len(s) : Ch(s, k) \in cls

\* float(text) for a text over [-\d.]: None stands for the ValueError Python
\* raises ("-", ".", "1.2.3", "1-2"); Some(v) is the value in ticks (digits
\* after the fifth decimal are beyond the model's resolution and dropped)
PyFloat(t) ==
    LET neg  == StartsWith(t, "-")
        body == IF neg THEN Tail(t) ELSE t
        dots == Occurrences(body, ".")
        ip   == IF dots = {} THEN body ELSE SubSeq(body, 1, Min(dots) - 1)
        fp   == IF dots = {} THEN "" ELSE SubSeq(body, Min(dots) + 1, Len(body))
        fp5  == SubSeq(fp \o "00000", 1, TickDigits)
        mag  == DigitsVal(ip) * Tick + DigitsVal(fp5)
    IN  IF AllIn(ip, Digit) /\ AllIn(fp, Digit) /\ Len(ip) + Len(fp) > 0
        THEN Some(IF neg THEN -mag ELSE mag)
        ELSE None

RECURSIVE NatStr(_)
NatStr(n) == IF n < 10 THEN Ch("0123456789", n + 1) ELSE NatStr(n \div 10) \o Ch("0123456789", (n % 10) + 1)

RECURSIVE PadStr(_, _)
PadStr(n, width) == IF width = 0 THEN "" ELSE PadStr(n \div 10, width - 1) \o Ch("0123456789", (n % 10) + 1)

\* round |num/den| to the nearest integer; an exact half goes up when `up`,
\* down otherwise (binary floating point has no exact halves of decimal
\* quantities: the rounding error of the preceding arithmetic decides)
RoundDiv(num, den, up) ==
    LET q == Abs(num) \div den
        r == Abs(num) % den
    IN  IF 2 * r > den \/ (2 * r = den /\ up) THEN q + 1 ELSE q

\* f"{x:.<places>f}" of x = num/den ticks (den > 0, places <= 5)
FormatFixed(num, den, places, up) ==
    LET q == RoundDiv(num, den * Pow10(TickDigits - places), up)
    IN  (IF num < 0 THEN "-" ELSE "") \o NatStr(q \div Pow10(places)) \o "." \o PadStr(q % Pow10(places), places)

RECURSIVE StripTrailing(_, _)
StripTrailing(s, c) == IF s # "" /\ Ch(s, Len(s)) = c THEN StripTrailing(SubSeq(s, 1, Len(s) - 1), c) ELSE s

RECURSIVE StripLeading(_, _)
StripLeading(s, c) == IF s # "" /\ Head(s) = c THEN StripLeading(Tail(s), c) ELSE s

\* str(x) of a float x given in ticks: the shortest decimal, always with a
\* fractional part ("0.2", "1.0", "10.0")
PyStr(v) ==
    LET fp == StripTrailing(PadStr(Abs(v) % Tick, TickDigits), "0")
    IN  (IF v < 0 THEN "-" ELSE "") \o NatStr(Abs(v) \div Tick) \o "." \o (IF fp = "" THEN "0" ELSE fp)

(***************************************************************************)
(* The regular expressions of the two scripts.                             *)
(***************************************************************************)
\* re.search(prefix + '([cls]+)', line): the group of the leftmost match, or None
SearchGroup(line, prefix, cls) ==
    LET hits == {p \in Occurrences(line, prefix) : RunLen(line, p + Len(prefix), cls) >= 1}
    IN  IF hits = {} THEN None ELSE Some(Run(line, Min(hits) + Len(prefix), cls))

\* re.sub(letter + '[-\d.]+', repl, line): every match replaced, left to right
RECURSIVE SubLetterNum(_, _, _)
SubLetterNum(line, letter, repl) ==
    LET hits == {p \in Occurrences(line, letter) : RunLen(line, p + 1, NumChar) >= 1}
    IN  IF hits = {} THEN line
        ELSE LET p == Min(hits)
                 e == p + RunLen(line, p + 1, NumChar)
             IN  SubSeq(line, 1, p - 1) \o repl \o SubLetterNum(SubSeq(line, e + 1, Len(line)), letter, repl)

\* the group of (\d*\.?\d+) matched at position p, or None
DecimalAt(line, p) ==
    LET d1 == RunLen(line, p, Digit)
        d2 == IF Ch(line, p + d1) = "." THEN RunLen(line, p + d1 + 1, Digit) ELSE 0
    IN  IF d2 >= 1 THEN Some(SubSeq(line, p, p + d1 + d2))
        ELSE IF d1 >= 1 THEN Some(SubSeq(line, p, p + d1 - 1))
        ELSE None

\* re.search('; <key> = (\d*\.?\d+)', line, re.IGNORECASE)
HeaderMatch(line, key) ==
    LET pre  == "; " \o key \o " = "
        hits == {p \in Occurrences(LowerStr(line), pre) : DecimalAt(line, p + Len(pre)) # None}
    IN  IF hits = {} THEN None ELSE DecimalAt(line, Min(hits) + Len(pre))

\* get_layer_height / get_min_layer_height: the first line that holds
\* "<key> =" and matches the pattern decides
RECURSIVE HeaderField(_, _)
HeaderField(ls, key) ==
    IF ls = <<>> THEN None
    ELSE IF Contains(LowerStr(Head(ls)), key \o " =") /\ HeaderMatch(Head(ls), key) # None
         THEN PyFloat(HeaderMatch(Head(ls), key)[1])
         ELSE HeaderField(Tail(ls), key)

get_layer_height(ls) == HeaderField(ls, "layer_height")

get_min_layer_height(ls) == HeaderField(ls, "min_layer_height")

\* re.search(r';\s*CHANGE_LAYER|;\s*LAYER_CHANGE', line)
IsLayerChange(line) ==
    \E p \in Occurrences(line, ";") :
        LET q == p + 1 + RunLen(line, p + 1, {" ", "\t"})
        IN  StartsWithAt(line, q, "CHANGE_LAYER") \/ StartsWithAt(line, q, "LAYER_CHANGE")

\* the height annotation of one look-ahead line: the group, or None
HeightMatch(line) ==
    IF Contains(line, ";HEIGHT:") THEN SearchGroup(line, ";HEIGHT:", DotDigit)
    ELSE IF Contains(line, "; LAYER_HEIGHT: ") THEN SearchGroup(line, "; LAYER_HEIGHT: ", DotDigit)
    ELSE None

\* re.compile(r'G1.*?\bZ([-0-9.]+)(?=\s|$)').search(line): the group, or None
ZRegexMatch(line) ==
    LET g1   == Occurrences(line, "G1")
        hits == IF g1 = {} THEN {}
                ELSE {p \in Occurrences(line, "Z") :
                        /\ p >= Min(g1) + 2
                        /\ ~IsWordAt(line, p - 1)
                        /\ RunLen(line, p + 1, NumChar) >= 1
                        /\ IsSpaceAt(line, p + 1 + RunLen(line, p + 1, NumChar))}
    IN  IF hits = {} THEN None ELSE Some(Run(line, Min(hits) + 1, NumChar))

\* str(current_z).lstrip('0').rstrip('0').rstrip('.')
StrippedZ(z) == StripTrailing(StripTrailing(StripLeading(PyStr(z), "0"), "0"), ".")

\* re.search(r'G1.*\bZ' + re.escape(needle) + r'\b', line)
OrgZMatch(line, needle) ==
    LET g1 == Occurrences(line, "G1")
    IN  /\ g1 # {}
        /\ \E p \in Occurrences(line, "Z" \o needle) :
              /\ p >= Min(g1) + 2
              /\ ~IsWordAt(line, p - 1)
              /\ BoundaryAfter(line, p + Len(needle))

(***************************************************************************)
(* Line classes of the scanner.                                            *)
(***************************************************************************)
\* line 96 (fixed) and line 131 (adaptive)
IsWallStart(pol, line) ==
    \/ Contains(line, ";TYPE:External perimeter")
    \/ Contains(line, ";TYPE:Outer wall")
    \/ (pol = "adaptive" /\ Contains(line, "; FEATURE: Outer wall"))

\* the look-ahead test on lines[i + 1]: line 101 (fixed) and line 137 (adaptive)
IsTerminator(pol, nxt) ==
    IF pol = "fixed"
    THEN Contains(nxt, ";TYPE:") \/ (Contains(nxt, "M") /\ ~Contains(nxt, "M73"))
    ELSE \/ Contains(nxt, ";TYPE:")
         \/ (Contains(nxt, "; FEATURE:") /\ ~(Contains(nxt, "Overhang") \/ Contains(nxt, "Outer")))
         \/ StartsWith(nxt, ";Z")
         \/ StartsWith(nxt, "M991")

\* the test that sends a block line to the extrusion branch: lines 135 and 224
IsExtrusionCandidate(pol, line) ==
    /\ Contains(line, "E")
    /\ \/ Contains(line, "G1")
       \/ (pol = "adaptive" /\ (Contains(line, "G2") \/ Contains(line, "G3")))

(***************************************************************************)
(* The pass planners.                                                      *)
(***************************************************************************)
Sign(x) == IF x > 0 THEN 1 ELSE IF x < 0 THEN -1 ELSE 0

\* floor(a / b) and ceil(a / b) for b # 0
FloorDiv(a, b) ==
    LET n == a * Sign(b)
        d == Abs(b)
    IN  IF n >= 0 THEN n \div d ELSE -((-n + d - 1) \div d)

CeilDiv(a, b) == -FloorDiv(-a, b)

\* Quantities that are equal in exact arithmetic and that the code compares as
\* IEEE-754 doubles: <<comparison, a, b, sign of (left - right) as CPython
\* evaluates it>>, for the inputs of this model whose exact values tie.
\*   "oc": diff_original - diff_ceil, "cf": diff_ceil - diff_floor, at
\*         current_layer_height a, outer_layer_height b (lines 150-160):
\*         0.2 / 0.15 : diff_original 0.05000000000000002, diff_ceil 0.04999999999999999
\*         0.2 / 0.045: diff_ceil 0.0049999999999999975, diff_floor 0.005000000000000004
\*         0.24 / 0.1 : diff_ceil 0.020000000000000004, diff_floor 0.01999999999999999
\* A tie that is not listed is evaluated as exactly equal (sign 0), which is
\* what the doubles give when both sides are the same computation
\* (passes_floor = 1 makes diff_floor the same double as diff_original;
\* passes_ceil = passes_floor makes diff_ceil the same double as diff_floor).
FloatTies ==
    { <<"oc", 20000, 15000, 1>>, <<"cf", 20000, 15000, -1>>,
      <<"cf", 20000, 4500, -1>>, <<"cf", 24000, 10000, 1>> }

TieSign(key, a, b) ==
    IF \E r \in FloatTies : r[1] = key /\ r[2] = a /\ r[3] = b
    THEN (CHOOSE r \in FloatTies : r[1] = key /\ r[2] = a /\ r[3] = b)[4]
    ELSE 0

\* round(a / b), b # 0: Python rounds the double quotient half to even
PyRound(a, b) ==
    LET q == Abs(a) \div Abs(b)
        r == Abs(a) % Abs(b)
        t == TieSign("round", a, b)
        m == IF 2 * r > Abs(b) THEN q + 1
             ELSE IF 2 * r < Abs(b) THEN q
             ELSE IF t > 0 THEN q + 1
             ELSE IF t < 0 THEN q
             ELSE IF q % 2 = 0 THEN q ELSE q + 1
    IN  Sign(a) * Sign(b) * m

\* a plan: crash is the ZeroDivisionError of the division by a pass count of 0
Plan(n, hnum) ==
    [crash |-> FALSE, passes |-> n,
     height |-> [num |-> hnum * Sign(n), den |-> Abs(n)],
     mult   |-> [num |-> Sign(n), den |-> Abs(n)]]

PlanCrash == [crash |-> TRUE, passes |-> 0, height |-> [num |-> 0, den |-> 1], mult |-> [num |-> 1, den |-> 1]]

\* Smoothificator.py lines 70-72
PlanFixed(base, target) ==
    IF target = 0 THEN PlanCrash
    ELSE IF PyRound(base, target) = 0 THEN PlanCrash
    ELSE Plan(PyRound(base, target), base)

\* Smoothificator_Adaptive.py lines 148-186
PlanAdaptive(clh, target) ==
    IF clh > target
    THEN IF target = 0 THEN PlanCrash
         ELSE LET passes_ceil  == CeilDiv(clh, target)
                  passes_floor == FloorDiv(clh, target)
                  \* diff_ceil = dc / |passes_ceil|, diff_floor = df / passes_floor
                  \* (infinite when passes_floor <= 0), diff_original = dorig
                  dc    == Abs(clh - target * passes_ceil)
                  df    == Abs(clh - target * passes_floor)
                  dorig == Abs(clh - target)
                  pcA   == Abs(passes_ceil)
                  orig_le_ceil  == \/ dorig * pcA < dc
                                   \/ (dorig * pcA = dc /\ TieSign("oc", clh, target) <= 0)
                  orig_le_floor == \/ passes_floor <= 0
                                   \/ dorig * passes_floor < df
                                   \/ (dorig * passes_floor = df /\ TieSign("of", clh, target) <= 0)
                  ceil_lt_floor == \/ passes_floor <= 0
                                   \/ dc * passes_floor < df * pcA
                                   \/ (dc * passes_floor = df * pcA /\ TieSign("cf", clh, target) < 0)
              IN  IF passes_ceil = 0 THEN PlanCrash
                  ELSE IF orig_le_ceil /\ orig_le_floor THEN Plan(1, clh)
                  ELSE IF ceil_lt_floor THEN Plan(passes_ceil, clh)
                  ELSE Plan(passes_floor, clh)
    ELSE [crash |-> FALSE, passes |-> 1, height |-> [num |-> clh, den |-> 1], mult |-> [num |-> 1, den |-> 1]]

(***************************************************************************)
(* The segment rewriter.                                                   *)
(***************************************************************************)
LookBehind == 10

LookAhead == 5

\* 0-based index of the last line of the block that starts at index i0: lines
\* 99-106 (fixed), 135-144 (adaptive)
BlockEnd(pol, ls, i0) ==
    LET stops == {e \in i0..(Len(ls) - 2) : IsTerminator(pol, ls[e + 2])}
    IN  IF stops = {} THEN Len(ls) - 1 ELSE Min(stops)

HasXY(line) ==
    /\ Contains(line, "G1") /\ Contains(line, "X") /\ Contains(line, "Y")
    /\ SearchGroup(line, "X", NumChar) # None
    /\ SearchGroup(line, "Y", NumChar) # None

\* the backward scan for the start position, lines 112-119 and 194-201:
\* j runs from i0 - 1 down to max(0, i0 - LookBehind) + 1.  None when no line
\* qualifies; otherwise <<x, y>>, each float(...) of its group
StartPos(ls, i0) ==
    LET js == {j \in (Max({0, i0 - LookBehind}) + 1)..(i0 - 1) : HasXY(ls[j + 1])}
    IN  IF js = {} THEN None
        ELSE <<PyFloat(SearchGroup(ls[Max(js) + 1], "X", NumChar)[1]),
               PyFloat(SearchGroup(ls[Max(js) + 1], "Y", NumChar)[1])>>

\* pass_z as a fraction of ticks: line 124 (fixed), lines 206-211 (adaptive)
PassZ(pol, z, clh, n, h, p) ==
    IF pol = "fixed" THEN [num |-> z * h.den + p * h.num, den |-> h.den]
    ELSE IF n = 1 THEN [num |-> z, den |-> 1]
    ELSE [num |-> (z - clh) * h.den + (p + 1) * h.num, den |-> h.den]

TravelLine(pos, up) ==
    "G1 X" \o FormatFixed(pos[1][1], 1, 3, up) \o " Y" \o FormatFixed(pos[2][1], 1, 3, up)
        \o " F9000 ; Travel back to start"

ZLine(pz, p, n, up) ==
    "G1 Z" \o FormatFixed(pz.num, pz.den, 3, up) \o " ; Pass " \o NatStr(p + 1) \o " of " \o NatStr(n)

\* float(e_match.group(1)) raises ValueError
ExtrusionCrash(pol, line) ==
    /\ IsExtrusionCandidate(pol, line)
    /\ SearchGroup(line, "E", NumChar) # None
    /\ PyFloat(SearchGroup(line, "E", NumChar)[1]) = None

\* the Z of a block line is rewritten whenever it matches, without comparing
\* the pass Z to the entry Z
EmitLineUnguarded(pol, line, mult, z, pz, up) ==
    IF IsExtrusionCandidate(pol, line)
    THEN IF SearchGroup(line, "E", NumChar) = None THEN <<>>
         ELSE LET e_value  == PyFloat(SearchGroup(line, "E", NumChar)[1])[1]
                  modified == SubLetterNum(line, "E", "E" \o FormatFixed(e_value * mult.num, mult.den, 5, up))
              IN  IF pol = "adaptive" /\ OrgZMatch(modified, StrippedZ(z))
                  THEN <<SubLetterNum(modified, "Z", "Z" \o FormatFixed(pz.num, pz.den, 3, up))>>
                  ELSE <<modified>>
    ELSE <<line>>

\* what one block line contributes to one pass, lines 134-143 and 223-239:
\* a sequence of no line or one line
EmitLine(pol, line, mult, z, pz, up) ==
    IF IsExtrusionCandidate(pol, line)
    THEN IF SearchGroup(line, "E", NumChar) = None THEN <<>>
         ELSE LET e_value  == PyFloat(SearchGroup(line, "E", NumChar)[1])[1]
                  modified == SubLetterNum(line, "E", "E" \o FormatFixed(e_value * mult.num, mult.den, 5, up))
              IN  IF /\ pol = "adaptive"
                     /\ OrgZMatch(modified, StrippedZ(z))
                     /\ FormatFixed(z, 1, 5, up) # FormatFixed(pz.num, pz.den, 5, up)
                  THEN <<SubLetterNum(modified, "Z", "Z" \o FormatFixed(pz.num, pz.den, 3, up))>>
                  ELSE <<modified>>
    ELSE <<line>>

\* origin of an output line: the 1-based number of the input line it comes
\* from (0 for a synthesised line), the ordinal of its segment (0 outside a
\* segment) and its pass (0-based; -1 outside a segment)
Tag(kind, src, seg, pass) == [kind |-> kind, src |-> src, seg |-> seg, pass |-> pass]

\* whether a block line contributes a line to each pass
Emits(pol, line) == ~IsExtrusionCandidate(pol, line) \/ SearchGroup(line, "E", NumChar) # None

\* the lines of pass p: lines 122-143 and 204-239
PassLines(pol, block, pos, z, clh, n, h, mult, p, up) ==
    LET pz == PassZ(pol, z, clh, n, h, p)
        body[k \in 0..Len(block)] ==
            IF k = 0 THEN <<>> ELSE body[k - 1] \o EmitLine(pol, block[k], mult, z, pz, up)
    IN  (IF p > 0 /\ pos # None THEN <<TravelLine(pos, up)>> ELSE <<>>)
        \o <<ZLine(pz, p, n, up)>>
        \o body[Len(block)]

\* the origins of the lines of pass p, in the same order
PassTags(pol, block, i0, seg, pos, p) ==
    LET body[k \in 0..Len(block)] ==
            IF k = 0 THEN <<>>
            ELSE body[k - 1] \o (IF Emits(pol, block[k]) THEN <<Tag("block", i0 + k, seg, p)>> ELSE <<>>)
    IN  (IF p > 0 /\ pos # None THEN <<Tag("travel", 0, seg, p)>> ELSE <<>>)
        \o <<Tag("z", 0, seg, p)>>
        \o body[Len(block)]

\* for pass_num in range(passes_needed): everything the segment appends to
\* modified_lines
SegmentLines(pol, block, pos, z, clh, n, h, mult, up) ==
    LET out[p \in 0..Max({n, 0})] ==
            IF p = 0 THEN <<>>
            ELSE out[p - 1] \o PassLines(pol, block, pos, z, clh, n, h, mult, p - 1, up)
    IN  out[Max({n, 0})]

SegmentTags(pol, block, i0, seg, pos, n) ==
    LET out[p \in 0..Max({n, 0})] ==
            IF p = 0 THEN <<>> ELSE out[p - 1] \o PassTags(pol, block, i0, seg, pos, p - 1)
    IN  out[Max({n, 0})]

(***************************************************************************)
(* Inputs: the script that is run, its --outer-layer-height argument (None *)
(* when omitted, which only the adaptive script allows) and the G-code     *)
(* file.                                                                   *)
(***************************************************************************)
MaxBody == 2

MaxRuns == 2

MaxRerunLines == 14

Policies == {"fixed", "adaptive"}

\* argument values in ticks: 0.1, 0.12, 0.15, 0.045, 0.01, 0.5, 0, -0.1
GoodArgs == {Some(10000), Some(12000), Some(15000), Some(4500), Some(1000), Some(50000)}

BadArgs == {Some(0), Some(-10000)}

ArgsOf(pol) == GoodArgs \cup BadArgs \cup (IF pol = "adaptive" THEN {None} ELSE {})

Headers ==
    { <<>>,
      <<"; layer_height = 0.2">>,
      <<"; layer_height = 0.2", "; min_layer_height = 0.1">> }

FullHeader == <<"; layer_height = 0.2", "; min_layer_height = 0.1">>

\* layer-change markers with their height annotation, in two slicer dialects
LayerMarks ==
    { <<>>,
      <<";LAYER_CHANGE", ";Z:0.2", ";HEIGHT:0.2">>,
      <<"; CHANGE_LAYER", "; Z_HEIGHT: 0.24", "; LAYER_HEIGHT: 0.24">>,
      <<";LAYER_CHANGE", ";Z:0.12", ";HEIGHT:0.12">> }

Layer02 == <<";LAYER_CHANGE", ";Z:0.2", ";HEIGHT:0.2">>

ZMoves == {<<"G1 Z.2 F9000">>, <<"G1 Z1 F600">>, <<"G1 Z.2004">>}

PreMoves == {<<>>, <<"G1 X10.5 Y20 F9000">>}

Markers == {";TYPE:External perimeter", ";TYPE:Outer wall", "; FEATURE: Outer wall"}

BodyLines ==
    { "G1 X12 Y21 Z.2 E.3",
      "G1 X12 Y22 Z0.2 E.3",
      "G1 X12 Y23 Z1.5 E.3",
      "G1 X12 Y8 F9000 ; TRAVEL",
      "G3 X13 Y9 I1 J1 E.4",
      "G1 E-.8 F1800" }

Bodies == UNION {[1..n -> BodyLines] : n \in 0..MaxBody}

Infill == <<";TYPE:Internal infill", "G1 X5 Y5 E.1">>

Tails ==
    { <<>>,
      Infill,
      <<"M106 S255", "G1 X5 Y5 E.1">>,
      <<"; FEATURE: Inner wall", "G1 X5 Y5 E.1">>,
      <<";TYPE:Outer wall", "G1 X2 Y2 E.2", ";TYPE:Internal infill">> }

Input(pol, a, f) == [policy |-> pol, arg |-> a, file |-> f]

\* every configuration against every header and layer annotation
ConfigInputs ==
    { Input(pol, a, h \o l \o <<"G1 Z.2 F9000", "G1 X10.5 Y20 F9000", ";TYPE:Outer wall",
                                "G1 X11 Y20 E1.2", "G1 X11 Y21 E.00011", "G3 X12 Y22 I1 J1 E.4">>
                         \o Infill) :
        pol \in Policies, a \in GoodArgs \cup BadArgs \cup {None}, h \in Headers, l \in LayerMarks }

\* every segment body at several entry heights
TextInputs ==
    { Input(pol, a, FullHeader \o Layer02 \o z \o <<"G1 X10.5 Y20 F9000", ";TYPE:Outer wall">> \o b \o t) :
        pol \in Policies, a \in {Some(10000), Some(50000)}, z \in ZMoves, b \in Bodies,
        t \in {Infill} }

\* every dialect of the markers around one segment, and files without one
DialectInputs ==
    { Input(pol, Some(10000), FullHeader \o l \o <<"G1 Z.2 F9000">> \o m \o k \o <<"G1 X11 Y20 E1.2">> \o t) :
        pol \in Policies, l \in LayerMarks, m \in PreMoves,
        k \in {<<x>> : x \in Markers} \cup {<<>>}, t \in Tails }

MaxPad == 7

\* k lines without coordinates
Pad(k) == [j \in 1..k |-> ";WIDTH:0.45"]

\* a move with X and Y at the head of the file (its very first line, or its
\* second), then up to MaxPad lines without coordinates, optionally a nearer
\* move, and the segment; the slicer's settings block ends the file
WindowInputs ==
    { Input(pol, Some(10000),
            h \o <<"G1 X10.5 Y20 F9000", ";LAYER_CHANGE", ";HEIGHT:0.2", "G1 Z.2 F9000">> \o Pad(k) \o m
              \o <<";TYPE:Outer wall", "G1 X11 Y20 E1.2", ";TYPE:Internal infill", "; layer_height = 0.2">>) :
        pol \in Policies, h \in {<<>>, <<"; generated by PrusaSlicer">>}, k \in 0..MaxPad,
        m \in {<<>>, <<"G1 X9.5 Y19 F9000">>} }

Inputs ==
    {inp \in ConfigInputs \cup TextInputs \cup DialectInputs \cup WindowInputs : inp.arg \in ArgsOf(inp.policy)}

(***************************************************************************)
(* State.  Program variables keep their Python names; `i` is the 0-based   *)
(* index of process_gcode, so the current line is lines[i + 1].            *)
(***************************************************************************)
VARIABLES
    policy,                 \* which script runs
    argument,               \* its --outer-layer-height argument: None or Some(ticks)
    file,                   \* the content of input_file on disk
    run,                    \* how many times the script has been started on the file
    pc,                     \* "start", "validate", "plan", "scan", "done", "exited", "crashed"
    lines,
    outer_layer_height,     \* None or Some(ticks)
    base_layer_height,      \* None or Some(ticks); fixed script only
    passes_needed,
    height_per_pass,        \* [num, den]
    extrusion_multiplier,   \* [num, den]
    current_layer,
    current_z,
    last_layer_current_z,
    current_layer_height,
    i,
    modified_lines,
    external_block_lines,
    start_pos,
    before,                 \* history: the file's content when this run started
    error_logged,           \* history: logging.error was called in this run
    origin,                 \* history: the origin of each line of modified_lines
    segs                    \* history: the segments rewritten in this run

vars == <<policy, argument, file, run, pc, lines, outer_layer_height, base_layer_height, passes_needed,
          height_per_pass, extrusion_multiplier, current_layer, current_z, last_layer_current_z,
          current_layer_height, i, modified_lines, external_block_lines, start_pos, before,
          error_logged, origin, segs>>

config  == <<policy, argument, file, run, before>>

planned == <<passes_needed, height_per_pass, extrusion_multiplier>>

cursor  == <<current_layer, current_z, last_layer_current_z, current_layer_height>>

\* the locals of process_gcode as lines 43-46 / 59-64 set them; the planner's
\* locals are unbound until first assigned and hold placeholders here
Locals(arg) ==
    /\ lines = <<>>
    /\ outer_layer_height = arg
    /\ base_layer_height = None
    /\ passes_needed = 0
    /\ height_per_pass = [num |-> 0, den |-> 1]
    /\ extrusion_multiplier = [num |-> 1, den |-> 1]
    /\ current_layer = 0
    /\ current_z = 0
    /\ last_layer_current_z = 0
    /\ current_layer_height = 0
    /\ i = 0
    /\ modified_lines = <<>>
    /\ external_block_lines = <<>>
    /\ start_pos = None
    /\ error_logged = FALSE
    /\ origin = <<>>
    /\ segs = <<>>

Init ==
    \E inp \in Inputs :
        /\ policy = inp.policy
        /\ argument = inp.arg
        /\ file = inp.file
        /\ before = inp.file
        /\ run = 1
        /\ pc = "start"
        /\ Locals(inp.arg)

(***************************************************************************)
(* Start-up: reading the file and the header, validating the target,       *)
(* planning (fixed script).                                                *)
(***************************************************************************)
\* the error is logged and the run goes on with the next statement
SysExitReturns(resume) == resume

\* sys.exit(1): the process ends, whatever statement would have come next
SysExit(resume) == "exited"

\* lines 52-60 (fixed), 70-79 (adaptive)
ReadInput ==
    /\ pc = "start"
    /\ lines' = file
    /\ IF policy = "fixed"
       THEN /\ base_layer_height' = get_layer_height(file)
            /\ outer_layer_height' = outer_layer_height
            \* `not base_layer_height`: None, or 0.0
            /\ error_logged' = (get_layer_height(file) \in {None, Some(0)})
       ELSE /\ base_layer_height' = base_layer_height
            /\ outer_layer_height' = IF outer_layer_height = None THEN get_min_layer_height(file)
                                     ELSE outer_layer_height
            /\ error_logged' = (outer_layer_height = None /\ get_min_layer_height(file) = None)
    /\ pc' = IF error_logged' THEN SysExit("validate") ELSE "validate"
    /\ UNCHANGED <<config, planned, cursor, i, modified_lines, external_block_lines, start_pos,
                   origin, segs>>

\* lines 64-67 (fixed), 83-86 (adaptive).  `None <= 0` is a TypeError
Validate ==
    /\ pc = "validate"
    /\ IF outer_layer_height = None
       THEN pc' = "crashed" /\ error_logged' = error_logged
       ELSE IF outer_layer_height[1] <= 0
            THEN /\ error_logged' = TRUE
                 /\ pc' = SysExit(IF policy = "fixed" THEN "plan" ELSE "scan")
            ELSE /\ error_logged' = error_logged
                 /\ pc' = IF policy = "fixed" THEN "plan" ELSE "scan"
    /\ UNCHANGED <<config, lines, outer_layer_height, base_layer_height, planned, cursor, i,
                   modified_lines, external_block_lines, start_pos, origin, segs>>

\* Smoothificator.py lines 69-72.  `None / x` is a TypeError
PlanPasses ==
    /\ pc = "plan"
    /\ IF base_layer_height = None
       THEN pc' = "crashed" /\ UNCHANGED planned
       ELSE LET plan == PlanFixed(base_layer_height[1], outer_layer_height[1])
            IN  IF plan.crash
                THEN pc' = "crashed" /\ UNCHANGED planned
                ELSE /\ pc' = "scan"
                     /\ passes_needed' = plan.passes
                     /\ height_per_pass' = plan.height
                     /\ extrusion_multiplier' = plan.mult
    /\ UNCHANGED <<config, lines, outer_layer_height, base_layer_height, cursor, i,
                   modified_lines, external_block_lines, start_pos, error_logged, origin, segs>>

(***************************************************************************)
(* The scanning loop: one action for each branch of its body.              *)
(***************************************************************************)
\* the branch of the loop body that line takes: lines 85-145 (fixed),
\* 97-241 (adaptive)
LineClass(pol, line) ==
    IF pol = "fixed"
    THEN IF StartsWith(line, "G1 Z") THEN "z"
         ELSE IF IsWallStart(pol, line) THEN "wall"
         ELSE "other"
    ELSE IF IsLayerChange(line) THEN "layer"
         ELSE IF ZRegexMatch(line) # None THEN "z"
         ELSE IF IsWallStart(pol, line) THEN "wall"
         ELSE "other"

Scanning(class) ==
    /\ pc = "scan"
    /\ i < Len(lines)
    /\ LineClass(policy, lines[i + 1]) = class

\* i += 1 without the append
SkipCurrent ==
    /\ UNCHANGED <<modified_lines, origin>>
    /\ i' = i + 1

\* modified_lines.append(line); i += 1
AppendCurrent ==
    /\ modified_lines' = Append(modified_lines, lines[i + 1])
    /\ origin' = Append(origin, Tag("copy", i + 1, 0, -1))
    /\ i' = i + 1

\* the group of the first height annotation among lines i+1 .. min(i+5, len)-1
HeightAhead(ls, k) ==
    LET js == {j \in (k + 1)..(Min({k + LookAhead, Len(ls)}) - 1) : HeightMatch(ls[j + 1]) # None}
    IN  IF js = {} THEN None ELSE HeightMatch(ls[Min(js) + 1])

\* Smoothificator_Adaptive.py lines 97-116
LayerChange ==
    /\ Scanning("layer")
    /\ LET h == HeightAhead(lines, i)
       IN  IF h # None /\ PyFloat(h[1]) = None
           THEN pc' = "crashed" /\ UNCHANGED <<cursor, i, modified_lines, origin>>
           ELSE /\ pc' = pc
                /\ last_layer_current_z' = current_z
                /\ current_layer_height' = IF h = None THEN current_layer_height ELSE PyFloat(h[1])[1]
                /\ UNCHANGED <<current_layer, current_z>>
                /\ AppendCurrent
    /\ UNCHANGED <<config, lines, outer_layer_height, base_layer_height, planned,
                   external_block_lines, start_pos, error_logged, segs>>

\* the Z of a Z-motion line: re.search(r'Z([-\d.]+)', line) at line 86,
\* z_regex_pattern at lines 119-120
ZGroup(pol, line) == IF pol = "fixed" THEN SearchGroup(line, "Z", NumChar) ELSE ZRegexMatch(line)

\* lines 85-93 (fixed), 118-128 (adaptive)
ZMove ==
    /\ Scanning("z")
    /\ LET g == ZGroup(policy, lines[i + 1])
       IN  IF g # None /\ PyFloat(g[1]) = None
           THEN pc' = "crashed" /\ UNCHANGED <<cursor, i, modified_lines, origin>>
           ELSE /\ pc' = pc
                /\ current_z' = IF g = None THEN current_z ELSE PyFloat(g[1])[1]
                /\ current_layer' = IF g # None /\ policy = "fixed" THEN current_layer + 1 ELSE current_layer
                /\ UNCHANGED <<last_layer_current_z, current_layer_height>>
                /\ AppendCurrent
    /\ UNCHANGED <<config, lines, outer_layer_height, base_layer_height, planned,
                   external_block_lines, start_pos, error_logged, segs>>

\* lines 144-146 (fixed), 240-242 (adaptive)
Passthrough ==
    /\ Scanning("other")
    /\ AppendCurrent
    /\ UNCHANGED <<config, pc, lines, outer_layer_height, base_layer_height, planned, cursor,
                   external_block_lines, start_pos, error_logged, segs>>

\* lines 96-143 (fixed), 131-239 (adaptive): the block is collected, planned
\* (adaptive), its start position looked up and its passes emitted
WallSegment ==
    /\ Scanning("wall")
    /\ \E up \in BOOLEAN, last \in {BlockEnd(policy, lines, i)} :
       \E block \in {SubSeq(lines, i + 1, last + 1)},
          pos \in {StartPos(lines, i)},
          plan \in {IF policy = "fixed"
                    THEN [crash |-> FALSE, passes |-> passes_needed, height |-> height_per_pass,
                          mult |-> extrusion_multiplier]
                    ELSE PlanAdaptive(current_layer_height, outer_layer_height[1])} :
        IF \/ plan.crash
           \/ (pos # None /\ (pos[1] = None \/ pos[2] = None))
           \/ (plan.passes > 0 /\ \E k \in 1..Len(block) : ExtrusionCrash(policy, block[k]))
        THEN /\ pc' = "crashed"
             /\ UNCHANGED <<planned, i, modified_lines, external_block_lines, start_pos, origin, segs>>
        ELSE /\ pc' = pc
             /\ external_block_lines' = block
             /\ i' = last + 1
             /\ passes_needed' = plan.passes
             /\ height_per_pass' = plan.height
             /\ extrusion_multiplier' = plan.mult
             /\ start_pos' = pos
             /\ modified_lines' = modified_lines \o
                    SegmentLines(policy, block, pos, current_z, current_layer_height,
                                 plan.passes, plan.height, plan.mult, up)
             /\ origin' = origin \o SegmentTags(policy, block, i, Len(segs) + 1, pos, plan.passes)
             /\ segs' = Append(segs, [first |-> i + 1, len |-> Len(block), entry_z |-> current_z,
                                      layer_height |-> current_layer_height,
                                      passes |-> plan.passes, has_pos |-> pos # None])
    /\ UNCHANGED <<config, lines, outer_layer_height, base_layer_height, cursor, error_logged>>

\* lines 148-150 (fixed), 244-246 (adaptive): the file is overwritten
WriteOutput ==
    /\ pc = "scan"
    /\ i >= Len(lines)
    /\ file' = modified_lines
    /\ pc' = "done"
    /\ UNCHANGED <<policy, argument, run, before, lines, outer_layer_height, base_layer_height,
                   planned, cursor, i, modified_lines, external_block_lines, start_pos,
                   error_logged, origin, segs>>

\* the script is started again on the file it has written, with the same
\* argument
Rerun ==
    /\ pc = "done"
    /\ run < MaxRuns
    /\ Len(file) <= MaxRerunLines
    /\ run' = run + 1
    /\ before' = file
    /\ pc' = "start"
    /\ lines' = <<>>
    /\ outer_layer_height' = argument
    /\ base_layer_height' = None
    /\ passes_needed' = 0
    /\ height_per_pass' = [num |-> 0, den |-> 1]
    /\ extrusion_multiplier' = [num |-> 1, den |-> 1]
    /\ current_layer' = 0
    /\ current_z' = 0
    /\ last_layer_current_z' = 0
    /\ current_layer_height' = 0
    /\ i' = 0
    /\ modified_lines' = <<>>
    /\ external_block_lines' = <<>>
    /\ start_pos' = None
    /\ error_logged' = FALSE
    /\ origin' = <<>>
    /\ segs' = <<>>
    /\ UNCHANGED <<policy, argument, file>>

Next ==
    \/ ReadInput
    \/ Validate
    \/ PlanPasses
    \/ LayerChange
    \/ ZMove
    \/ WallSegment
    \/ Passthrough
    \/ WriteOutput
    \/ Rerun

Spec == Init /\ [][Next]_vars

(***************************************************************************)
(* Vocabulary of the properties.  A segment is read from the history       *)
(* variable segs, the lines it emitted from origin.                        *)
(***************************************************************************)
SegIds == 1..Len(segs)

SegSpan(s) == segs[s].first..(segs[s].first + segs[s].len - 1)

\* the output positions that hold the copy of input line k made by pass p of
\* segment s
CopyAt(s, p, k) ==
    {o \in 1..Len(origin) : origin[o] = Tag("block", k, s, p)}

\* the output position of the Z move of pass p of segment s
ZMoveAt(s, p) == {o \in 1..Len(origin) : origin[o] = Tag("z", 0, s, p)}

\* a motion command that carries an extrusion value
CarriesExtrusion(line) ==
    /\ StartsWith(line, "G1 ") \/ StartsWith(line, "G2 ") \/ StartsWith(line, "G3 ")
    /\ SearchGroup(line, "E", NumChar) # None
    /\ PyFloat(SearchGroup(line, "E", NumChar)[1]) # None

\* the value of a field of a line, in ticks
FieldValue(line, letter) == PyFloat(SearchGroup(line, letter, NumChar)[1])[1]

\* the text of a field of a line
FieldText(line, letter) == SearchGroup(line, letter, NumChar)[1]

RECURSIVE SumOver(_, _)
SumOver(set, f) ==
    IF set = {} THEN 0
    ELSE LET x == CHOOSE y \in set : TRUE IN f[x] + SumOver(set \ {x}, f)

\* the lines segment s emitted, in output order
RECURSIVE EmittedUpTo(_, _)
EmittedUpTo(s, o) ==
    IF o = 0 THEN <<>>
    ELSE EmittedUpTo(s, o - 1) \o (IF origin[o].seg = s THEN <<modified_lines[o]>> ELSE <<>>)

Emitted(s) == EmittedUpTo(s, Len(origin))

NoSplit(s) == policy = "adaptive" /\ segs[s].layer_height <= outer_layer_height[1]

\* line with every extrusion value replaced by the 5-decimal print of its
\* first one
Reprinted(line) ==
    IF SearchGroup(line, "E", NumChar) = None THEN line
    ELSE SubLetterNum(line, "E", "E" \o FormatFixed(FieldValue(line, "E"), 1, 5, FALSE))

InSegment(k) == \E s \in SegIds : k \in SegSpan(s)

\* the output positions that come from input line k
FromLine(k) == {o \in 1..Len(origin) : origin[o].src = k}

\* the reference rule in exact arithmetic, for clh > target > 0:
\* deviations |clh/n - target| are compared as |clh - n*target| / n
ReferencePasses(clh, target) ==
    LET c  == CeilDiv(clh, target)
        f  == FloorDiv(clh, target)
        d1 == Abs(clh - target)
        dc == Abs(clh - c * target)
        df == Abs(clh - f * target)
    IN  IF d1 * c <= dc /\ d1 * f <= df THEN 1
        ELSE IF dc * f < df * c THEN c
        ELSE f

(***************************************************************************)
(* C1  Extrusion conservation: for every wall segment split into N > 1     *)
(* passes and every segment line that carries an extrusion value E, each   *)
(* of the N passes emits one copy of the line carrying E/N rounded to 5    *)
(* decimal places, and the sum of the N emitted values is within 1e-4 of   *)
(* E.                                                                      *)
(***************************************************************************)
ExtrusionConserved ==
    \A s \in SegIds : segs[s].passes > 1 =>
        \A k \in SegSpan(s) : CarriesExtrusion(lines[k]) =>
            LET n      == segs[s].passes
                e      == FieldValue(lines[k], "E")
                copies == UNION {CopyAt(s, p, k) : p \in 0..(n - 1)}
                value  == [o \in copies |-> FieldValue(modified_lines[o], "E")]
            IN  /\ \A p \in 0..(n - 1) : Cardinality(CopyAt(s, p, k)) = 1
                /\ \A o \in copies :
                       \E up \in BOOLEAN : FieldText(modified_lines[o], "E") = FormatFixed(e, n, 5, up)
                /\ Abs(SumOver(copies, value) - e) <= 10     \* 1e-4 in ticks

(***************************************************************************)
(* C2  Height conservation: for every rewritten segment, under both        *)
(* policies and every pass count N >= 1, the Z move of the last pass has   *)
(* the segment's entry Z (at the 3 decimals a Z move is printed with).     *)
(***************************************************************************)
HeightConserved ==
    \A s \in SegIds : segs[s].passes >= 1 =>
        \A o \in ZMoveAt(s, segs[s].passes - 1) :
            \E up \in BOOLEAN :
                FieldText(modified_lines[o], "Z") = FormatFixed(segs[s].entry_z, 1, 3, up)

(***************************************************************************)
(* C3  The fixed-height plan is always well defined: for a base layer      *)
(* height > 0 and a target > 0 the planning step does not fail, yields the *)
(* nearest integer to base/target clipped to a minimum of 1, and           *)
(* pass count x height per pass = base with multiplier 1 / pass count.     *)
(***************************************************************************)
FixedPlanDefined ==
    [][(/\ pc = "plan"
        /\ base_layer_height # None
        /\ base_layer_height[1] > 0
        /\ outer_layer_height[1] > 0)
       => /\ pc' = "scan"
          /\ passes_needed' >= 1
          /\ \/ 2 * Abs(base_layer_height[1] - passes_needed' * outer_layer_height[1])
                    <= outer_layer_height[1]
             \/ (passes_needed' = 1 /\ 2 * base_layer_height[1] < outer_layer_height[1])
          /\ passes_needed' * height_per_pass'.num = base_layer_height[1] * height_per_pass'.den
          /\ passes_needed' * extrusion_multiplier'.num = extrusion_multiplier'.den]_vars

(***************************************************************************)
(* C4  Adaptive pass selection equals the reference rule: when the current *)
(* layer height exceeds the target, the plan is the one of {1 pass,        *)
(* ceil(current/target) passes, floor(current/target) passes} whose height *)
(* per pass deviates least from the target; the original wins its ties,    *)
(* and floor wins a tie with ceil.                                         *)
(***************************************************************************)
AdaptiveReferenceRule ==
    policy = "adaptive" =>
        \A s \in SegIds :
            segs[s].layer_height > outer_layer_height[1] =>
                segs[s].passes = ReferencePasses(segs[s].layer_height, outer_layer_height[1])

SecondRunSinglePass ==
    (policy = "adaptive" /\ run > 1) => \A s \in SegIds : segs[s].passes = 1

(***************************************************************************)
(* C7  Passthrough and order preservation: when the run has written the    *)
(* file, every input line outside a wall segment is in it exactly once,    *)
(* unchanged, in input order, with the lines of each rewritten segment     *)
(* where the segment stood; an input without a wall-start marker is        *)
(* written back as it was.                                                 *)
(***************************************************************************)
PassthroughPreserved ==
    pc = "done" =>
        /\ Len(origin) = Len(file)
        /\ \A k \in 1..Len(lines) : ~InSegment(k) =>
               /\ Cardinality(FromLine(k)) = 1
               /\ \A o \in FromLine(k) : file[o] = lines[k] /\ origin[o].seg = 0
        /\ \A o \in 1..Len(origin) :
               \/ origin[o].seg = 0 /\ origin[o].src \in 1..Len(lines) /\ ~InSegment(origin[o].src)
               \/ origin[o].seg \in SegIds
        \* order: positions are sorted by the place of their source in the input
        /\ \A o1, o2 \in 1..Len(origin) : o1 < o2 =>
               LET place(o) == IF origin[o].seg = 0 THEN origin[o].src ELSE segs[origin[o].seg].first
               IN  place(o1) <= place(o2) /\ (origin[o1].seg = 0 => place(o1) < place(o2))
        /\ (\A k \in 1..Len(lines) : ~IsWallStart(policy, lines[k])) => file = lines

\* a written file with a layer-change marker and a Z move before a segment of
\* several passes and passthrough lines after it
PassthroughAroundSegment ==
    /\ pc = "done"
    /\ \E s \in SegIds :
           /\ segs[s].passes > 1
           /\ \E k \in 1..(segs[s].first - 1) : LineClass(policy, lines[k]) = "z"
           /\ \E k \in 1..(segs[s].first - 1) : IsLayerChange(lines[k])
           /\ \E k \in 1..Len(lines) : k > segs[s].first /\ ~InSegment(k)

(***************************************************************************)
(* C8  No write on fatal error: a run that reports a fatal configuration   *)
(* error (required header field missing, no target and no min_layer_height *)
(* header, target <= 0) stops before the output step: the file keeps the   *)
(* content it had when the run started.                                    *)
(***************************************************************************)
NoWriteOnFatalError ==
    error_logged => file = before

\* a run on a file with a wall segment that ended with a fatal error
FatalErrorExit ==
    /\ error_logged
    /\ pc = "exited"
    /\ \E k \in 1..Len(file) : IsWallStart(policy, file[k])

(***************************************************************************)
(* C9  No segment line is lost: in every pass of every wall segment each   *)
(* line of the segment yields exactly one emitted line, in original order, *)
(* and a line without a parseable extrusion value is copied unchanged.     *)
(***************************************************************************)
NoSegmentLineLost ==
    \A s \in SegIds : \A p \in 0..(segs[s].passes - 1) :
        /\ \A k \in SegSpan(s) :
               /\ Cardinality(CopyAt(s, p, k)) = 1
               /\ SearchGroup(lines[k], "E", NumChar) = None =>
                      \A o \in CopyAt(s, p, k) : modified_lines[o] = lines[k]
        /\ \A k1, k2 \in SegSpan(s) : k1 < k2 =>
               \A o1 \in CopyAt(s, p, k1), o2 \in CopyAt(s, p, k2) : o1 < o2

(***************************************************************************)
(* C10  Z correction inside a segment (adaptive policy): the copy, in a    *)
(* pass whose Z differs from the entry Z, of an extrusion line whose Z     *)
(* field equals the entry Z carries the pass's Z; the copy of an extrusion *)
(* line whose Z field differs from the entry Z keeps its own Z.            *)
(***************************************************************************)
ZCorrected ==
    policy = "adaptive" =>
        \A s \in SegIds : \A p \in 0..(segs[s].passes - 1) : \A k \in SegSpan(s) :
            (/\ CarriesExtrusion(lines[k])
             /\ SearchGroup(lines[k], "Z", NumChar) # None
             /\ PyFloat(FieldText(lines[k], "Z")) # None) =>
                LET n  == segs[s].passes
                    z  == segs[s].entry_z
                    pz == PassZ(policy, z, segs[s].layer_height, n,
                                [num |-> segs[s].layer_height, den |-> n], p)
                IN  \A o \in CopyAt(s, p, k) :
                        IF FieldValue(lines[k], "Z") = z
                        THEN pz.num # z * pz.den =>
                                 \E up \in BOOLEAN :
                                     FieldText(modified_lines[o], "Z") = FormatFixed(pz.num, pz.den, 3, up)
                        ELSE FieldText(modified_lines[o], "Z") = FieldText(lines[k], "Z")

\* a motion command that carries both an X and a Y coordinate
CarriesXY(line) ==
    /\ StartsWith(line, "G")
    /\ SearchGroup(line, "X", NumChar) # None /\ PyFloat(FieldText(line, "X")) # None
    /\ SearchGroup(line, "Y", NumChar) # None /\ PyFloat(FieldText(line, "Y")) # None

\* the lines with X and Y among the (at most 10) lines that immediately
\* precede the wall-start marker of segment s, by their 1-based number
EntryWindow(s) ==
    {k \in Max({1, segs[s].first - 10})..(segs[s].first - 1) : CarriesXY(lines[k])}

\* the output positions of the travel-back moves of pass p of segment s
TravelAt(s, p) == {o \in 1..Len(origin) : origin[o] = Tag("travel", 0, s, p)}

(***************************************************************************)
(* C11  Travel-back rule: the entry XY of a segment is the X,Y of the most *)
(* recent line with both coordinates among the (at most 10) lines right    *)
(* before the wall-start marker, the first line of the file included.  If  *)
(* there is one, every pass p >= 1 has exactly one travel-back move to     *)
(* that XY immediately before its Z move and pass 0 has none; if there is  *)
(* none, the segment has no travel-back move.                               *)
(***************************************************************************)
TravelBackRule ==
    \A s \in SegIds : \A p \in 0..(segs[s].passes - 1) :
        IF EntryWindow(s) # {} /\ p >= 1
        THEN LET entry == lines[Max(EntryWindow(s))]
                 xy    == <<PyFloat(FieldText(entry, "X")), PyFloat(FieldText(entry, "Y"))>>
             IN  /\ Cardinality(TravelAt(s, p)) = 1
                 /\ \A o \in TravelAt(s, p) :
                        /\ \E up \in BOOLEAN : modified_lines[o] = TravelLine(xy, up)
                        /\ o + 1 \in ZMoveAt(s, p)
        ELSE TravelAt(s, p) = {}

=============================================================================
